---- MODULE Spec2Model ----
(***************************************************************************)
(* Model of the autonomous delivery agent: the grid and its moving         *)
(* obstacles (environment/grid.py, environment/obstacles.py), the search   *)
(* strategies (algorithms/uninformed_search.py, informed_search.py,        *)
(* local_search.py) and the agent controller (agent/delivery_agent.py).    *)
(*                                                                         *)
(* Positions are pairs <<x, y>>.  Sequences are 1-based here, 0-based in   *)
(* the source: source index i is index i + 1 below.                        *)
(***************************************************************************)
EXTENDS Integers, Sequences, FiniteSets, TLC

VARIABLES
    grid,          \* Grid: [width, height, terrain: per cell, obstacle: per cell]
    start,         \* the queried start position
    goal,          \* the queried goal position
    alg,           \* the strategy under way
    search,        \* the running state of its search call
    agent,         \* DeliveryAgent: its attributes
    dynamic_grid,  \* DynamicGrid handed to the agent: [present,
                   \* moving_obstacles, dynamic_obstacles]
    replan_alg,    \* run_delivery's replan_algorithm
    pc,            \* where run_delivery stands
    call,          \* the last agent operation and what it returned
    result         \* what run_delivery returned

searchVars == <<alg, search>>
agentVars == <<agent, dynamic_grid, replan_alg, pc, call, result>>
vars == <<grid, start, goal, alg, search, agent, dynamic_grid, replan_alg,
          pc, call, result>>

\* ------------------------------------------------------------------ bounds
Width == 3
Height == 2
\* terrain kinds drawn for a cell: 1 .. MaxTerrain (FLAT = 1, ..., WATER = 4)
MaxTerrain == 3
\* at most this many cells are not FLAT / are static obstacles
MaxRough == 2
MaxObstacles == 1
\* flat grids are drawn with up to this many static obstacles (walls)
MaxWalls == 2

\* restarts and iterations given to HillClimbing (max_restarts,
\* max_iterations), the initial temperature given to SimulatedAnnealing
\* (initial_temp), the number of positions of a seed path, and the cap on
\* the evaluations counted by one annealing call
MaxRestarts == 2
MaxIterations == 2
InitialTemp == 4
MaxSeedLen == 4
MaxEvaluated == 6

\* fuel and time_limit given to a DeliveryAgent: 0 .. MaxFuel and
\* 0 .. MaxTimeLimit; the latest time of a waypoint of a moving obstacle;
\* the cap on replan_count and on total_nodes_expanded under which single
\* operations of the agent are called
MaxFuel == 3
MaxTimeLimit == 4
MaxSchedTime == 2
MaxReplans == 1
MaxNodesExpanded == 4
MaxWaypoints == 3

\* float('inf')
Infinity == 1000000

\* the unit of the float values of euclidean_distance: one thousandth
Thousandths == 1000

\* the node budget of HillClimbing._find_alternative_route
VisitLimit == 100
\* max_length of HillClimbing.generate_random_path
RandomWalkLength == 50

\* the cells of a width x height grid
Cells(w, h) == (0 .. (w - 1)) \X (0 .. (h - 1))

Abs(n) == IF n < 0 THEN -n ELSE n

\* p and q are one 4-connected step apart
OneStep(p, q) == Abs(p[1] - q[1]) + Abs(p[2] - q[2]) = 1

\* -------------------------------------------------------------------- Grid
\* Cell._get_terrain_cost: FLAT 1, HILLS 2, MOUNTAINS 3, WATER 4
TerrainCost(terrain) ==
    CASE terrain = 1 -> 1
      [] terrain = 2 -> 2
      [] terrain = 3 -> 3
      [] terrain = 4 -> 4

\* Grid.is_valid_position
is_valid_position(g, p) ==
    /\ 0 <= p[1] /\ p[1] < g.width
    /\ 0 <= p[2] /\ p[2] < g.height

\* Grid.is_traversable (the time argument is ignored by the static grid)
is_traversable(g, p) ==
    IF ~is_valid_position(g, p) THEN FALSE ELSE ~g.obstacle[p]

\* a variant of get_cost that charges one unit for every cell
get_cost_unit(g, p) ==
    IF is_valid_position(g, p) THEN 1 ELSE Infinity

\* Grid.get_cost
get_cost(g, p) ==
    IF is_valid_position(g, p) THEN TerrainCost(g.terrain[p]) ELSE Infinity

\* a variant of set_terrain that clamps the coordinates into the grid
set_terrain_clamped(g, p, terrain) ==
    LET x == IF p[1] < 0 THEN 0
             ELSE IF p[1] >= g.width THEN g.width - 1 ELSE p[1]
        y == IF p[2] < 0 THEN 0
             ELSE IF p[2] >= g.height THEN g.height - 1 ELSE p[2]
    IN  [g EXCEPT !.terrain[<<x, y>>] = terrain]

\* Grid.set_terrain
set_terrain(g, p, terrain) ==
    IF is_valid_position(g, p) THEN [g EXCEPT !.terrain[p] = terrain] ELSE g

\* Grid.set_obstacle
set_obstacle(g, p, is_obstacle) ==
    IF is_valid_position(g, p) THEN [g EXCEPT !.obstacle[p] = is_obstacle]
    ELSE g

\* a variant of the directions in which no step leads to a smaller x
directions_without_west == << <<0, 1>>, <<1, 0>>, <<0, -1>> >>

\* directions of Grid.get_neighbors, in the order of the source
directions == << <<0, 1>>, <<1, 0>>, <<0, -1>>, <<-1, 0>> >>

RECURSIVE neighbors_from(_, _, _)
neighbors_from(g, p, i) ==
    IF i > Len(directions) THEN <<>>
    ELSE LET n == <<p[1] + directions[i][1], p[2] + directions[i][2]>>
         IN  IF is_valid_position(g, n)
             THEN <<n>> \o neighbors_from(g, p, i + 1)
             ELSE neighbors_from(g, p, i + 1)

\* Grid.get_neighbors
get_neighbors(g, p) == neighbors_from(g, p, 1)

\* -------------------------------------------------------------------- Node
\* Node.__init__; parent is an index into the sequence of created nodes
\* (0 is None)
Node(p, parent, cost, time) ==
    [pos |-> p, parent |-> parent, cost |-> cost, time |-> time]

\* Node.__lt__
NodeLt(a, b) == a.cost < b.cost

\* Node.__eq__
NodeEq(a, b) == a.pos = b.pos

\* mutant: the walk up the parent links is returned without reversing it
reconstruct_path_unreversed(nodes, id) ==
    LET RECURSIVE walk(_)
        walk(i) == IF i = 0 THEN <<>> ELSE <<nodes[i].pos>> \o walk(nodes[i].parent)
    IN  walk(id)

RECURSIVE reconstruct_from(_, _)
reconstruct_from(nodes, id) ==
    IF id = 0 THEN <<>>
    ELSE reconstruct_from(nodes, nodes[id].parent) \o <<nodes[id].pos>>

\* UninformedSearch.reconstruct_path
reconstruct_path(nodes, id) == reconstruct_from(nodes, id)

\* a variant of the successors that does not test traversability
RECURSIVE successors_unchecked(_, _, _, _)
successors_unchecked(g, nodes, id, ns) ==
    IF ns = <<>> THEN <<>>
    ELSE <<Node(Head(ns), id, nodes[id].cost + get_cost(g, Head(ns)),
                nodes[id].time + 1)>>
             \o successors_unchecked(g, nodes, id, Tail(ns))

RECURSIVE successors_from(_, _, _, _)
successors_from(g, nodes, id, ns) ==
    IF ns = <<>> THEN <<>>
    ELSE LET n == Head(ns)
             rest == successors_from(g, nodes, id, Tail(ns))
         IN  IF is_traversable(g, n)
             THEN <<Node(n, id, nodes[id].cost + get_cost(g, n),
                         nodes[id].time + 1)>> \o rest
             ELSE rest

\* a variant of get_successors that expands only nodes standing on a
\* traversable cell
get_successors_of_free(g, nodes, id) ==
    IF is_traversable(g, nodes[id].pos)
    THEN successors_from(g, nodes, id, get_neighbors(g, nodes[id].pos))
    ELSE <<>>

\* UninformedSearch.get_successors
get_successors(g, nodes, id) ==
    successors_from(g, nodes, id, get_neighbors(g, nodes[id].pos))

\* ------------------------------------------------------------------- heapq
\* mutant: the frontier orders its entries by greatest priority first
EntryLt_reversed(nodes, a, b) == a.prio > b.prio

\* (priority, node) < (priority, node): Python's tuple comparison, the
\* first differing element decides, and nodes compare by __eq__ / __lt__
EntryLt(nodes, a, b) ==
    IF a.prio # b.prio THEN a.prio < b.prio
    ELSE IF NodeEq(nodes[a.id], nodes[b.id]) THEN FALSE
    ELSE NodeLt(nodes[a.id], nodes[b.id])

RECURSIVE siftdown_loop(_, _, _, _, _)
siftdown_loop(nodes, heap, newitem, startpos, pos) ==
    IF pos > startpos
    THEN LET parentpos == (pos - 1) \div 2
             parent == heap[parentpos + 1]
         IN  IF EntryLt(nodes, newitem, parent)
             THEN siftdown_loop(nodes, [heap EXCEPT ![pos + 1] = parent],
                                newitem, startpos, parentpos)
             ELSE [heap EXCEPT ![pos + 1] = newitem]
    ELSE [heap EXCEPT ![pos + 1] = newitem]

\* heapq._siftdown
siftdown(nodes, heap, startpos, pos) ==
    siftdown_loop(nodes, heap, heap[pos + 1], startpos, pos)

RECURSIVE siftup_loop(_, _, _, _, _)
siftup_loop(nodes, heap, newitem, startpos, pos) ==
    LET endpos == Len(heap)
        childpos == 2 * pos + 1
    IN  IF childpos < endpos
        THEN LET rightpos == childpos + 1
                 c == IF /\ rightpos < endpos
                         /\ ~EntryLt(nodes, heap[childpos + 1], heap[rightpos + 1])
                      THEN rightpos ELSE childpos
             IN  siftup_loop(nodes, [heap EXCEPT ![pos + 1] = heap[c + 1]],
                             newitem, startpos, c)
        ELSE siftdown(nodes, [heap EXCEPT ![pos + 1] = newitem], startpos, pos)

\* heapq._siftup
siftup(nodes, heap, pos) == siftup_loop(nodes, heap, heap[pos + 1], pos, pos)

\* heapq.heappush
heappush(nodes, heap, item) ==
    siftdown(nodes, Append(heap, item), 0, Len(heap))

\* a variant of heappop that pops the entry at the end of the list
heappop_newest(nodes, heap) ==
    [item |-> heap[Len(heap)], heap |-> SubSeq(heap, 1, Len(heap) - 1)]

\* heapq.heappop: the popped item and the heap left
heappop(nodes, heap) ==
    LET lastelt == heap[Len(heap)]
        rest == SubSeq(heap, 1, Len(heap) - 1)
    IN  IF rest # <<>>
        THEN [item |-> rest[1],
              heap |-> siftup(nodes, [rest EXCEPT ![1] = lastelt], 0)]
        ELSE [item |-> lastelt, heap |-> <<>>]

\* ---------------------------------------------------------- search results
\* a dict keyed by position; d.get(p, float('inf'))
DictGet(d, p) == IF p \in DOMAIN d THEN d[p] ELSE Infinity
DictSet(d, p, v) == (p :> v) @@ d
EmptyDict == <<>>

\* the running state of one search call
SearchState(nodes, frontier, seen, f_score) ==
    [nodes |-> nodes, frontier |-> frontier, seen |-> seen,
     f_score |-> f_score, nodes_expanded |-> 0,
     done |-> FALSE, path |-> <<>>, cost |-> 0]

\* return path, cost, nodes_expanded
Return(st, path, cost, expanded) ==
    [st EXCEPT !.done = TRUE, !.path = path, !.cost = cost,
               !.nodes_expanded = expanded]
\* --------------------------------------------------------------------- BFS
\* BFS.search up to its loop: the start == goal shortcut, else the frontier
\* deque([start_node]) and explored = {start}
BFSInit(src, dst) ==
    IF NodeEq(Node(src, 0, 0, 0), Node(dst, 0, 0, 0))
    THEN Return(SearchState(<<>>, <<>>, {}, EmptyDict), <<src>>, 0, 0)
    ELSE SearchState(<<Node(src, 0, 0, 0)>>, <<1>>, {src}, EmptyDict)

\* mutant: successors are put at the front of the frontier (a stack)
RECURSIVE bfs_enqueue_lifo(_, _)
bfs_enqueue_lifo(st, succs) ==
    IF succs = <<>> THEN st
    ELSE LET s == Head(succs)
         IN  IF s.pos \notin st.seen
             THEN bfs_enqueue_lifo([st EXCEPT !.seen = @ \cup {s.pos},
                                              !.nodes = Append(@, s),
                                              !.frontier = <<Len(st.nodes) + 1>> \o @],
                                   Tail(succs))
             ELSE bfs_enqueue_lifo(st, Tail(succs))

\* the for loop of BFS.search over the successors of the dequeued node
RECURSIVE bfs_enqueue(_, _)
bfs_enqueue(st, succs) ==
    IF succs = <<>> THEN st
    ELSE LET s == Head(succs)
         IN  IF s.pos \notin st.seen
             THEN bfs_enqueue([st EXCEPT !.seen = @ \cup {s.pos},
                                         !.nodes = Append(@, s),
                                         !.frontier = Append(@, Len(st.nodes) + 1)],
                              Tail(succs))
             ELSE bfs_enqueue(st, Tail(succs))

\* one iteration of the while loop of BFS.search (or its exit)
BFSStep(g, dst, st) ==
    IF st.frontier = <<>>
    THEN Return(st, <<>>, Infinity, st.nodes_expanded)
    ELSE LET current == Head(st.frontier)
             popped == [st EXCEPT !.frontier = Tail(@),
                                  !.nodes_expanded = @ + 1]
         IN  IF st.nodes[current].pos = dst
             THEN Return(popped, reconstruct_path(st.nodes, current),
                         st.nodes[current].cost, popped.nodes_expanded)
             ELSE bfs_enqueue(popped, get_successors(g, st.nodes, current))

\* the while loop of BFS.search, run to its return (the singleton set binds
\* the state after an iteration to a value before the next iteration)
RECURSIVE BFSRun(_, _, _)
BFSRun(g, dst, st) ==
    IF st.done THEN st
    ELSE CHOOSE r \in {BFSRun(g, dst, s) : s \in {BFSStep(g, dst, st)}} : TRUE

\* BFS.search
BFS(g, src, dst) == BFSRun(g, dst, BFSInit(src, dst))

\* --------------------------------------------------------------------- UCS
\* UniformCostSearch.search up to its loop
UCSInit(src) ==
    SearchState(<<Node(src, 0, 0, 0)>>, <<[prio |-> 0, id |-> 1]>>,
                DictSet(EmptyDict, src, 0), EmptyDict)

\* the relaxation test of UniformCostSearch.search
ucs_improves(explored, p, new_cost) ==
    p \notin DOMAIN explored \/ new_cost < explored[p]

\* the for loop of UniformCostSearch.search over the successors
RECURSIVE ucs_relax(_, _, _, _)
ucs_relax(g, st, current_cost, succs) ==
    IF succs = <<>> THEN st
    ELSE LET s == Head(succs)
             new_cost == current_cost + get_cost(g, s.pos)
             nodes2 == Append(st.nodes, [s EXCEPT !.cost = new_cost])
         IN  IF ucs_improves(st.seen, s.pos, new_cost)
             THEN ucs_relax(g,
                     [st EXCEPT !.seen = DictSet(@, s.pos, new_cost),
                                !.nodes = nodes2,
                                !.frontier = heappush(nodes2, @,
                                    [prio |-> new_cost, id |-> Len(nodes2)])],
                     current_cost, Tail(succs))
             ELSE ucs_relax(g, st, current_cost, Tail(succs))

\* one iteration of the while loop of UniformCostSearch.search (or its exit)
UCSStep(g, dst, st) ==
    IF st.frontier = <<>>
    THEN Return(st, <<>>, Infinity, st.nodes_expanded)
    ELSE LET pop == heappop(st.nodes, st.frontier)
             current_cost == pop.item.prio
             current == pop.item.id
             popped == [st EXCEPT !.frontier = pop.heap,
                                  !.nodes_expanded = @ + 1]
         IN  IF st.nodes[current].pos = dst
             THEN Return(popped, reconstruct_path(st.nodes, current),
                         st.nodes[current].cost, popped.nodes_expanded)
             ELSE IF current_cost > DictGet(st.seen, st.nodes[current].pos)
             THEN popped
             ELSE ucs_relax(g, popped, current_cost,
                            get_successors(g, st.nodes, current))

RECURSIVE UCSRun(_, _, _)
UCSRun(g, dst, st) ==
    IF st.done THEN st
    ELSE CHOOSE r \in {UCSRun(g, dst, s) : s \in {UCSStep(g, dst, st)}} : TRUE

\* UniformCostSearch.search
UniformCostSearch(g, src, dst) == UCSRun(g, dst, UCSInit(src))

\* ---------------------------------------------------------------------- A*
\* mutant: the squares of the coordinate differences are summed
manhattan_distance_squared(p, q) ==
    (p[1] - q[1]) * (p[1] - q[1]) + (p[2] - q[2]) * (p[2] - q[2])

\* AStarSearch.manhattan_distance
manhattan_distance(p, q) == Abs(p[1] - q[1]) + Abs(p[2] - q[2])

\* a variant of the Chebyshev distance scaled by the cost of the dearest
\* terrain, which overestimates the remaining cost on flat ground
chebyshev_distance_scaled(p, q) ==
    LET dx == Abs(p[1] - q[1])  dy == Abs(p[2] - q[2])
    IN  TerrainCost(4) * (IF dx > dy THEN dx ELSE dy)

\* AStarSearch.chebyshev_distance
chebyshev_distance(p, q) ==
    IF Abs(p[1] - q[1]) > Abs(p[2] - q[2])
    THEN Abs(p[1] - q[1]) ELSE Abs(p[2] - q[2])

\* the greatest r in lo .. hi with r * r <= n
RECURSIVE isqrt_between(_, _, _)
isqrt_between(n, lo, hi) ==
    IF lo >= hi THEN lo
    ELSE LET mid == (lo + hi + 1) \div 2
         IN  IF mid * mid <= n THEN isqrt_between(n, mid, hi)
             ELSE isqrt_between(n, lo, mid - 1)

\* AStarSearch.euclidean_distance: a float, kept in thousandths and rounded
\* down; on the grids modelled two values g + h that differ as floats
\* differ by more than six thousandths
euclidean_distance(p, q) ==
    LET dx == Abs(p[1] - q[1])
        dy == Abs(p[2] - q[2])
    IN  isqrt_between((dx * dx + dy * dy) * Thousandths * Thousandths,
                      0, (dx + dy) * Thousandths)

\* AStarSearch._get_heuristic_function applied: unknown names fall back to
\* manhattan
heuristic(name, p, q) ==
    CASE name = "chebyshev" -> chebyshev_distance(p, q)
      [] name = "euclidean" -> euclidean_distance(p, q)
      [] name \notin {"chebyshev", "euclidean"} -> manhattan_distance(p, q)

\* tentative_g + h_value, in the unit of the heuristic's values
f_of(name, tentative_g, h_value) ==
    IF name = "euclidean" THEN tentative_g * Thousandths + h_value
    ELSE tentative_g + h_value

\* AStarSearch.search up to its loop
AStarInit(name, src, dst) ==
    SearchState(<<Node(src, 0, 0, 0)>>, <<[prio |-> 0, id |-> 1]>>,
                DictSet(EmptyDict, src, 0),
                DictSet(EmptyDict, src, heuristic(name, src, dst)))

\* the relaxation test of AStarSearch.search
astar_improves(g_score, p, tentative_g) ==
    p \notin DOMAIN g_score \/ tentative_g < g_score[p]

\* the for loop of AStarSearch.search over the successors
RECURSIVE astar_relax(_, _, _, _, _, _)
astar_relax(g, name, dst, st, current, succs) ==
    IF succs = <<>> THEN st
    ELSE LET s == Head(succs)
             tentative_g == st.seen[st.nodes[current].pos] + get_cost(g, s.pos)
             f_value == f_of(name, tentative_g, heuristic(name, s.pos, dst))
             nodes2 == Append(st.nodes,
                          [s EXCEPT !.parent = current, !.cost = tentative_g])
         IN  IF astar_improves(st.seen, s.pos, tentative_g)
             THEN astar_relax(g, name, dst,
                     [st EXCEPT !.seen = DictSet(@, s.pos, tentative_g),
                                !.f_score = DictSet(@, s.pos, f_value),
                                !.nodes = nodes2,
                                !.frontier = heappush(nodes2, @,
                                    [prio |-> f_value, id |-> Len(nodes2)])],
                     current, Tail(succs))
             ELSE astar_relax(g, name, dst, st, current, Tail(succs))

\* one iteration of the while loop of AStarSearch.search (or its exit)
AStarStep(g, name, dst, st) ==
    IF st.frontier = <<>>
    THEN Return(st, <<>>, Infinity, st.nodes_expanded)
    ELSE LET pop == heappop(st.nodes, st.frontier)
             current == pop.item.id
             popped == [st EXCEPT !.frontier = pop.heap,
                                  !.nodes_expanded = @ + 1]
         IN  IF st.nodes[current].pos = dst
             THEN Return(popped, reconstruct_path(st.nodes, current),
                         st.nodes[current].cost, popped.nodes_expanded)
             ELSE astar_relax(g, name, dst, popped, current,
                              get_successors(g, st.nodes, current))

RECURSIVE AStarRun(_, _, _, _)
AStarRun(g, name, dst, st) ==
    IF st.done THEN st
    ELSE CHOOSE r \in {AStarRun(g, name, dst, s) : s \in {AStarStep(g, name, dst, st)}} : TRUE

\* AStarSearch.search
AStarSearch(g, name, src, dst) ==
    AStarRun(g, name, dst, AStarInit(name, src, dst))
\* ------------------------------------------------------------ local search
\* None, where the source has a path or None
NonePath == << <<-1, -1>> >>

\* not path: None and the empty list are both false
Falsy(path) == path = NonePath \/ path = <<>>

RECURSIVE path_cost_from(_, _, _)
path_cost_from(g, path, i) ==
    IF i > Len(path) THEN 0
    ELSE get_cost(g, path[i]) + path_cost_from(g, path, i + 1)

\* HillClimbing.get_path_cost, SimulatedAnnealing.get_path_cost
get_path_cost(g, path) == path_cost_from(g, path, 2)

\* the random walk of HillClimbing.generate_random_path after `steps`
\* steps: every path it can return, NonePath when it can return None
RECURSIVE random_walks(_, _, _, _)
random_walks(g, dst, path, steps) ==
    LET current == path[Len(path)]
        visited == {path[i] : i \in 1 .. Len(path)}
        ns == get_neighbors(g, current)
        neighbors == {ns[i] : i \in {j \in 1 .. Len(ns) :
                         is_traversable(g, ns[j]) /\ ns[j] \notin visited}}
    IN  IF steps = RandomWalkLength \/ neighbors = {} THEN {NonePath}
        ELSE UNION {IF n = dst THEN {Append(path, n)}
                    ELSE random_walks(g, dst, Append(path, n), steps + 1) :
                    n \in neighbors}

\* HillClimbing.generate_random_path: the set of its possible results
generate_random_path(g, src, dst) == random_walks(g, dst, <<src>>, 0)

\* the for loop of _find_alternative_route over the neighbours of current
RECURSIVE route_extend(_, _, _, _, _)
route_extend(g, q, current_path, ns, i) ==
    IF i > Len(ns) THEN q
    ELSE IF is_traversable(g, ns[i]) /\ ns[i] \notin q.visited
         THEN route_extend(g,
                  [queue |-> Append(q.queue, Append(current_path, ns[i])),
                   visited |-> q.visited \cup {ns[i]}],
                  current_path, ns, i + 1)
         ELSE route_extend(g, q, current_path, ns, i + 1)

\* the while loop of _find_alternative_route; a queue entry is the path to
\* its position.  <<>> stands for None and for an empty path[1:], which the
\* only caller does not tell apart.
RECURSIVE route_loop(_, _, _, _)
route_loop(g, end, max_steps, q) ==
    IF q.queue = <<>> \/ ~(Cardinality(q.visited) < VisitLimit) THEN <<>>
    ELSE LET path == Head(q.queue)
             current == path[Len(path)]
             rest == [q EXCEPT !.queue = Tail(@)]
         IN  IF Len(path) > max_steps + 2
             THEN route_loop(g, end, max_steps, rest)
             ELSE IF current = end
             THEN Tail(path)
             ELSE CHOOSE r \in {route_loop(g, end, max_steps, q2) :
                      q2 \in {route_extend(g, rest, path,
                                           get_neighbors(g, current), 1)}} : TRUE

\* HillClimbing._find_alternative_route
find_alternative_route(g, src, end, max_steps) ==
    route_loop(g, end, max_steps, [queue |-> <<<<src>>>>, visited |-> {src}])

\* HillClimbing.mutate_path with the segment start_idx, end_idx drawn
\* (0-based, as in the source): path[:start_idx] + new_segment +
\* path[end_idx + 1:]
mutate_at(g, path, start_idx, end_idx) ==
    LET new_segment == find_alternative_route(g, path[start_idx + 1],
                           path[end_idx + 1], end_idx - start_idx)
    IN  IF new_segment # <<>>
        THEN SubSeq(path, 1, start_idx) \o new_segment
                 \o SubSeq(path, end_idx + 2, Len(path))
        ELSE path

\* HillClimbing.mutate_path: the set of its possible results
mutate_path(g, path) ==
    IF Len(path) < 3 THEN {path}
    ELSE UNION {{mutate_at(g, path, start_idx, end_idx) :
                    end_idx \in (start_idx + 1) .. (Len(path) - 1)} :
                start_idx \in 0 .. (Len(path) - 2)}

\* the running state of one HillClimbing.search call, before its loops
HCInit(initial_path) ==
    [best_path |-> initial_path,
     best_cost |-> Infinity,
     current_path |-> <<>>, current_cost |-> 0,
     nodes_evaluated |-> 0, restart |-> 0, iteration |-> 0,
     phase |-> "restart", temperature |-> [num |-> 0, den |-> 1],
     raised |-> FALSE, done |-> FALSE, path |-> <<>>, cost |-> 0]

\* best_cost = float('inf') if not initial_path else get_path_cost(...)
HCStart(g, initial_path) ==
    [HCInit(initial_path) EXCEPT
        !.best_cost = IF Falsy(initial_path) THEN Infinity
                      ELSE get_path_cost(g, initial_path)]

\* the head of one pass of `for restart in range(max_restarts)` of
\* HillClimbing.search, up to its inner loop, with the random path drawn
\* (or the return after the last pass)
hc_restart(g, src, dst, st, drawn) ==
    IF st.restart = MaxRestarts
    THEN [st EXCEPT !.done = TRUE, !.path = st.best_path, !.cost = st.best_cost]
    ELSE LET current_path == IF st.best_path = NonePath THEN drawn
                             ELSE st.best_path
         IN  IF Falsy(current_path)
             THEN [st EXCEPT !.restart = @ + 1]
             ELSE [st EXCEPT !.current_path = current_path,
                             !.current_cost = get_path_cost(g, current_path),
                             !.nodes_evaluated = @ + 1,
                             !.iteration = 0,
                             !.phase = "iterate"]

\* the acceptance test of HillClimbing.search for a mutated path
hc_rejects(new_path, dst) ==
    Falsy(new_path) \/ new_path[Len(new_path)] # dst

\* one pass of `for iteration in range(max_iterations)` of
\* HillClimbing.search with the mutated path drawn (or the end of the loop)
hc_iterate(g, dst, st, new_path) ==
    IF st.iteration = MaxIterations
    THEN [st EXCEPT !.restart = @ + 1, !.phase = "restart"]
    ELSE IF hc_rejects(new_path, dst)
    THEN [st EXCEPT !.iteration = @ + 1]
    ELSE LET new_cost == get_path_cost(g, new_path)
             better == new_cost < st.current_cost
             current_path == IF better THEN new_path ELSE st.current_path
             current_cost == IF better THEN new_cost ELSE st.current_cost
             best == current_cost < st.best_cost
         IN  [st EXCEPT !.iteration = @ + 1,
                        !.nodes_evaluated = @ + 1,
                        !.current_path = current_path,
                        !.current_cost = current_cost,
                        !.best_path = IF best THEN current_path ELSE @,
                        !.best_cost = IF best THEN current_cost ELSE @]

\* one step of HillClimbing.search: the set of states it can lead to
HCStep(g, src, dst, st) ==
    IF st.phase = "restart"
    THEN {hc_restart(g, src, dst, st, drawn) :
             drawn \in IF st.restart < MaxRestarts /\ st.best_path = NonePath
                       THEN generate_random_path(g, src, dst) ELSE {NonePath}}
    ELSE {hc_iterate(g, dst, st, new_path) :
             new_path \in IF st.iteration < MaxIterations
                          THEN mutate_path(g, st.current_path) ELSE {<<>>}}

\* SimulatedAnnealing.__init__: cooling_rate, 1/2 in the model
cooling_rate == [num |-> 1, den |-> 2]

\* SimulatedAnnealing.search up to its loop; initial_path.copy() raises on
\* None
SAStart(g, initial_path) ==
    IF initial_path = NonePath
    THEN [HCInit(initial_path) EXCEPT !.raised = TRUE, !.done = TRUE,
                                      !.phase = "anneal"]
    ELSE [HCInit(initial_path) EXCEPT
             !.current_path = initial_path,
             !.current_cost = get_path_cost(g, initial_path),
             !.best_cost = get_path_cost(g, initial_path),
             !.temperature = [num |-> InitialTemp, den |-> 1],
             !.nodes_evaluated = 1,
             !.phase = "anneal"]

\* temperature > 1
sa_hot(t) == t.num > t.den

\* the test of SimulatedAnnealing.search that sends a mutated path back to
\* the head of the loop
sa_rejects(new_path, dst) ==
    Falsy(new_path) \/ new_path[Len(new_path)] # dst

\* one pass of the while loop of SimulatedAnnealing.search with the mutated
\* path and the outcome of random() < exp(...) drawn (or the return)
sa_iterate(g, dst, st, new_path, lucky) ==
    IF ~sa_hot(st.temperature)
    THEN [st EXCEPT !.done = TRUE, !.path = st.best_path, !.cost = st.best_cost]
    ELSE IF sa_rejects(new_path, dst)
    THEN [st EXCEPT !.nodes_evaluated = @ + 1]
    ELSE LET new_cost == get_path_cost(g, new_path)
             accept == new_cost < st.current_cost \/ lucky
             current_cost == IF accept THEN new_cost ELSE st.current_cost
             best == accept /\ current_cost < st.best_cost
         IN  [st EXCEPT !.nodes_evaluated = @ + 1,
                        !.current_path = IF accept THEN new_path ELSE @,
                        !.current_cost = current_cost,
                        !.best_path = IF best THEN new_path ELSE @,
                        !.best_cost = IF best THEN current_cost ELSE @,
                        !.temperature = [num |-> @.num * cooling_rate.num,
                                         den |-> @.den * cooling_rate.den]]

\* random() < exp((current_cost - new_cost) / temperature): exp is 1 for
\* equal costs, so the test always passes; for a costlier path it may pass
\* or fail
sa_luck(g, st, new_path) ==
    IF Falsy(new_path) THEN {FALSE}
    ELSE IF get_path_cost(g, new_path) = st.current_cost THEN {TRUE}
    ELSE IF get_path_cost(g, new_path) > st.current_cost THEN {TRUE, FALSE}
    ELSE {FALSE}

\* one step of SimulatedAnnealing.search: the set of states it can lead to
SAStep(g, dst, st) ==
    IF ~sa_hot(st.temperature) THEN {sa_iterate(g, dst, st, <<>>, FALSE)}
    ELSE UNION {{sa_iterate(g, dst, st, new_path, lucky) :
                    lucky \in sa_luck(g, st, new_path)} :
                new_path \in mutate_path(g, st.current_path)}

\* --------------------------------------------------------- moving obstacles
\* a waypoint of a schedule is <<time, x, y>>
\* sorted(schedule, key=time): stable, a waypoint goes behind those of the
\* same time that came before it
RECURSIVE insert_by_time(_, _)
insert_by_time(sorted, w) ==
    IF sorted = <<>> THEN <<w>>
    ELSE IF sorted[Len(sorted)][1] <= w[1] THEN Append(sorted, w)
    ELSE Append(insert_by_time(SubSeq(sorted, 1, Len(sorted) - 1), w),
                sorted[Len(sorted)])

\* a variant that keeps the schedule in the order it was given
schedule_as_given(schedule) == schedule

RECURSIVE sorted_by_time(_)
sorted_by_time(schedule) ==
    IF schedule = <<>> THEN <<>>
    ELSE insert_by_time(
             sorted_by_time(SubSeq(schedule, 1, Len(schedule) - 1)),
             schedule[Len(schedule)])

\* MovingObstacle.__init__: the object is its sorted schedule
MovingObstacle(schedule) == sorted_by_time(schedule)

\* round(n / d) for d > 0 and n >= 0: to the nearest integer, a half to the
\* even one
RoundHalfEven(n, d) ==
    LET q == n \div d
        r == n - q * d
    IN  IF 2 * r < d THEN q
        ELSE IF 2 * r > d THEN q + 1
        ELSE IF q % 2 = 0 THEN q ELSE q + 1

\* int(round(a + ratio * (b - a))) with ratio = (time - t1) / (t2 - t1)
interpolate(a, b, t1, t2, time) ==
    RoundHalfEven(a * (t2 - t1) + (time - t1) * (b - a), t2 - t1)

\* MovingObstacle.get_position_at_time
get_position_at_time(schedule, time) ==
    LET first == schedule[1]
        last == schedule[Len(schedule)]
        segments == {i \in 1 .. (Len(schedule) - 1) :
                        schedule[i][1] <= time /\ time <= schedule[i + 1][1]}
    IN  IF time <= first[1] THEN <<first[2], first[3]>>
        ELSE IF time >= last[1] THEN <<last[2], last[3]>>
        ELSE IF segments = {} THEN <<last[2], last[3]>>
        ELSE LET i == CHOOSE j \in segments : \A k \in segments : j <= k
                 w1 == schedule[i]
                 w2 == schedule[i + 1]
             IN  IF w2[1] = w1[1] THEN <<w1[2], w1[3]>>
                 ELSE <<interpolate(w1[2], w2[2], w1[1], w2[1], time),
                        interpolate(w1[3], w2[3], w1[1], w2[1], time)>>

\* ------------------------------------------------------------- DynamicGrid
\* DynamicGrid.__init__ over the base grid; moving_obstacles maps an
\* obstacle id to its MovingObstacle
NewDynamicGrid ==
    [present |-> TRUE, moving_obstacles |-> <<>>, dynamic_obstacles |-> {}]

\* no DynamicGrid is handed over (dynamic_grid=None)
NoDynamicGrid ==
    [present |-> FALSE, moving_obstacles |-> <<>>, dynamic_obstacles |-> {}]

add_moving_obstacle(dg, obstacle_id, schedule) ==
    [dg EXCEPT !.moving_obstacles =
                   (obstacle_id :> MovingObstacle(schedule)) @@ @]

\* a variant of the update that does not clear the occupancy set first
update_without_clear(dg, time) ==
    [dg EXCEPT !.dynamic_obstacles =
                   @ \cup {get_position_at_time(dg.moving_obstacles[k], time) :
                              k \in DOMAIN dg.moving_obstacles}]

update_dynamic_obstacles(dg, time) ==
    [dg EXCEPT !.dynamic_obstacles =
                   {get_position_at_time(dg.moving_obstacles[k], time) :
                       k \in DOMAIN dg.moving_obstacles}]

\* DynamicGrid.is_traversable over base grid g: the answer and the
\* DynamicGrid it leaves
dynamic_is_traversable(g, dg, p, time) ==
    IF ~is_traversable(g, p)
    THEN [ret |-> FALSE, dynamic_grid |-> dg]
    ELSE LET updated == update_dynamic_obstacles(dg, time)
         IN  [ret |-> p \notin updated.dynamic_obstacles,
              dynamic_grid |-> updated]

\* ----------------------------------------------------------- DeliveryAgent
\* DeliveryAgent.__init__; self.start, self.goal and self.grid are the
\* variables start, goal and grid
NewAgent(src, fuel, time_limit) ==
    [fuel |-> fuel, time_limit |-> time_limit,
     position |-> src, path |-> <<>>, cost |-> 0, time_elapsed |-> 0,
     fuel_remaining |-> fuel, state |-> "PLANNING",
     replan_count |-> 0, total_nodes_expanded |-> 0]

\* the keys of the planners of _get_planner
Planners == {"bfs", "ucs", "astar", "hillclimbing", "annealing"}
CompletePlanners == {"bfs", "ucs", "astar"}
LocalPlanners == {"hillclimbing", "annealing"}

\* what a search call hands back to the agent: the tuple (path, cost,
\* nodes_expanded), or a fault: the call raises, or it never returns
Returned(path, cost, nodes_expanded) ==
    [fault |-> "none", path |-> path, cost |-> cost,
     nodes_expanded |-> nodes_expanded]
Faulted(fault) ==
    [fault |-> fault, path |-> <<>>, cost |-> 0, nodes_expanded |-> 0]

\* HillClimbing.search run to its return: the states it can return in
RECURSIVE hc_results(_, _, _, _)
hc_results(g, src, dst, states) ==
    IF \A st \in states : st.done THEN states
    ELSE CHOOSE r \in
             {hc_results(g, src, dst, next) :
                 next \in {{st \in states : st.done} \cup
                           UNION {HCStep(g, src, dst, st) :
                                     st \in {u \in states : ~u.done}}}} :
             TRUE

HillClimbingSearch(g, src, dst, initial_path) ==
    {Returned(st.path, st.cost, st.nodes_evaluated) :
        st \in hc_results(g, src, dst, {HCStart(g, initial_path)})}

\* a pass of the loop of SimulatedAnnealing.search can come back to the
\* head of the loop with the temperature as it was
sa_stalls(g, dst, st) ==
    /\ ~st.done
    /\ sa_hot(st.temperature)
    /\ \E new_path \in mutate_path(g, st.current_path) :
           sa_rejects(new_path, dst)

\* SimulatedAnnealing.search run to its return: the states it can return
\* in, and those in which it can go round its loop for ever
RECURSIVE sa_results(_, _, _)
sa_results(g, dst, states) ==
    IF \A st \in states : st.done \/ sa_stalls(g, dst, st) THEN states
    ELSE CHOOSE r \in
             {sa_results(g, dst, next) :
                 next \in {{st \in states :
                               st.done \/ sa_stalls(g, dst, st)} \cup
                           UNION {SAStep(g, dst, st) :
                                     st \in {u \in states :
                                                ~u.done
                                                /\ ~sa_stalls(g, dst, u)}}}} :
             TRUE

SimulatedAnnealingSearch(g, src, dst, initial_path) ==
    {IF st.raised THEN Faulted("raised")
     ELSE IF ~st.done THEN Faulted("hangs")
     ELSE Returned(st.path, st.cost, st.nodes_evaluated) :
        st \in sa_results(g, dst, {SAStart(g, initial_path)})}

\* planner.search(self.position, self.goal) of plan_path: what the planner
\* of _get_planner can hand back; SimulatedAnnealing.search is called
\* without its third argument, which raises
planner_search(algorithm, g, src, dst) ==
    CASE algorithm = "bfs" ->
           LET found == BFS(g, src, dst)
           IN  {Returned(found.path, found.cost, found.nodes_expanded)}
      [] algorithm = "ucs" ->
           LET found == UniformCostSearch(g, src, dst)
           IN  {Returned(found.path, found.cost, found.nodes_expanded)}
      [] algorithm = "astar" ->
           LET found == AStarSearch(g, "manhattan", src, dst)
           IN  {Returned(found.path, found.cost, found.nodes_expanded)}
      [] algorithm = "hillclimbing" ->
           HillClimbingSearch(g, src, dst, NonePath)
      [] algorithm = "annealing" -> {Faulted("raised")}

\* DeliveryAgent.plan_path: the agent it leaves and what it returns
plan_path(g, dst, ag, algorithm) ==
    IF algorithm \notin Planners
    THEN {[agent |-> ag, ret |-> FALSE, fault |-> "none"]}
    ELSE {IF r.fault # "none"
          THEN [agent |-> ag, ret |-> FALSE, fault |-> r.fault]
          ELSE [agent |-> [ag EXCEPT !.path = r.path,
                                     !.total_nodes_expanded =
                                         @ + r.nodes_expanded],
                ret |-> ~Falsy(r.path), fault |-> "none"] :
             r \in planner_search(algorithm, g, ag.position, dst)}

\* the constraints move checks before it executes a move of cost move_cost
constraints_violated_early(ag, move_cost) ==
    ag.fuel_remaining <= move_cost \/ ag.time_elapsed >= ag.time_limit
\* a variant of the constraint test of move that forgets the fuel
constraints_violated_time_only(ag, move_cost) ==
    ag.time_elapsed >= ag.time_limit
constraints_violated(ag, move_cost) ==
    ag.fuel_remaining < move_cost \/ ag.time_elapsed >= ag.time_limit

\* a variant of move that leaves the clock alone
move_off_the_clock(g, dst, ag) ==
    IF Falsy(ag.path) \/ ag.position = dst
    THEN [agent |-> [ag EXCEPT !.state = "COMPLETED"], ret |-> FALSE]
    ELSE IF Len(ag.path) <= 1
    THEN [agent |-> ag, ret |-> FALSE]
    ELSE LET next_pos == ag.path[2]
             move_cost == get_cost(g, next_pos)
         IN  IF constraints_violated(ag, move_cost)
             THEN [agent |-> ag, ret |-> FALSE]
             ELSE [agent |-> [ag EXCEPT
                                 !.position = next_pos,
                                 !.cost = @ + move_cost,
                                 !.fuel_remaining = @ - move_cost,
                                 !.path = Tail(@)],
                   ret |-> TRUE]

\* DeliveryAgent.move
move(g, dst, ag) ==
    IF Falsy(ag.path) \/ ag.position = dst
    THEN [agent |-> [ag EXCEPT !.state = "COMPLETED"], ret |-> FALSE]
    ELSE IF Len(ag.path) <= 1
    THEN [agent |-> ag, ret |-> FALSE]
    ELSE LET next_pos == ag.path[2]
             move_cost == get_cost(g, next_pos)
         IN  IF constraints_violated(ag, move_cost)
             THEN [agent |-> ag, ret |-> FALSE]
             ELSE [agent |-> [ag EXCEPT
                                 !.position = next_pos,
                                 !.cost = @ + move_cost,
                                 !.fuel_remaining = @ - move_cost,
                                 !.time_elapsed = @ + 1,
                                 !.path = Tail(@)],
                   ret |-> TRUE]

\* the time at which check_for_replan asks for the path's element of
\* source index i
future_time_now(ag, i) == ag.time_elapsed
future_time(ag, i) == ag.time_elapsed + i

\* the last test of check_for_replan: "stuck"
stuck(ag) == Len(ag.path) > 1 /\ ag.path[2] = ag.position

\* the loop of check_for_replan over the path from source index i on: the
\* answer and the DynamicGrid the queries leave
RECURSIVE check_path_from(_, _, _, _)
check_path_from(g, ag, dg, i) ==
    IF i >= Len(ag.path)
    THEN [ret |-> stuck(ag), dynamic_grid |-> dg]
    ELSE LET asked == dynamic_is_traversable(g, dg, ag.path[i + 1],
                                             future_time(ag, i))
         IN  IF ~asked.ret
             THEN [ret |-> TRUE, dynamic_grid |-> asked.dynamic_grid]
             ELSE check_path_from(g, ag, asked.dynamic_grid, i + 1)

\* DeliveryAgent.check_for_replan
check_for_replan(g, ag, dg) ==
    IF Falsy(ag.path) THEN [ret |-> TRUE, dynamic_grid |-> dg]
    ELSE IF dg.present THEN check_path_from(g, ag, dg, 0)
    ELSE [ret |-> stuck(ag), dynamic_grid |-> dg]

\* planner.search(self.position, self.goal, self.path) of replan
repair_search(algorithm, g, src, dst, path) ==
    IF algorithm = "hillclimbing"
    THEN HillClimbingSearch(g, src, dst, path)
    ELSE SimulatedAnnealingSearch(g, src, dst, path)

\* DeliveryAgent.replan
replan(g, dst, ag, algorithm) ==
    LET counted == [ag EXCEPT !.replan_count = @ + 1]
    IN  IF ~Falsy(counted.path)
             /\ algorithm \in {"hillclimbing", "annealing"}
        THEN {IF r.fault # "none"
              THEN [agent |-> counted, ret |-> FALSE, fault |-> r.fault]
              ELSE LET evaluated ==
                           [counted EXCEPT !.total_nodes_expanded =
                                               @ + r.nodes_expanded]
                   IN  IF ~Falsy(r.path)
                       THEN [agent |-> [evaluated EXCEPT !.path = r.path],
                             ret |-> TRUE, fault |-> "none"]
                       ELSE [agent |-> evaluated, ret |-> FALSE,
                             fault |-> "none"] :
                 r \in repair_search(algorithm, g, counted.position, dst,
                                     counted.path)}
        ELSE plan_path(g, dst, counted, algorithm)

\* DeliveryAgent._get_metrics
get_metrics(ag, success) ==
    [returned |-> TRUE,
     success |-> success,
     final_position |-> ag.position,
     total_cost |-> ag.cost,
     time_elapsed |-> ag.time_elapsed,
     fuel_remaining |-> ag.fuel_remaining,
     replan_count |-> ag.replan_count,
     total_nodes_expanded |-> ag.total_nodes_expanded,
     path_length |-> IF Falsy(ag.path) THEN 0 ELSE Len(ag.path)]

\* run_delivery has not returned
NoResult == [returned |-> FALSE]
NoCall == [op |-> "none", ret |-> FALSE]

\* the values of the agent's variables where no agent is constructed
NoAgent ==
    /\ agent = [state |-> "none"]
    /\ dynamic_grid = NoDynamicGrid
    /\ replan_alg = "none"
    /\ pc = "none"
    /\ call = NoCall
    /\ result = NoResult

\* the values of the searches' variable where a search is not run by steps
NoSearch == [done |-> TRUE]

\* ------------------------------------------------- the grids of the model
\* Grid.__init__ and _initialize_grid, then any set_terrain / set_obstacle
\* calls: at most r cells are not FLAT, at most o cells are obstacles
TerrainMaps(w, h, r) ==
    UNION {{[p \in Cells(w, h) |-> IF p \in S THEN f[p] ELSE 1] :
               f \in [S -> 2 .. MaxTerrain]} :
           S \in {T \in SUBSET Cells(w, h) : Cardinality(T) <= r}}
ObstacleMaps(w, h, o) ==
    {[p \in Cells(w, h) |-> p \in S] :
        S \in {T \in SUBSET Cells(w, h) : Cardinality(T) <= o}}
GridsOf(w, h, r, o) ==
    {[width |-> w, height |-> h, terrain |-> t, obstacle |-> ob] :
        t \in TerrainMaps(w, h, r), ob \in ObstacleMaps(w, h, o)}

\* the 3x3 all-flat grid of the end-to-end scenarios, with and without the
\* static obstacle at (1,1)
ScenarioGrids ==
    {[width |-> 3, height |-> 3,
      terrain |-> [p \in Cells(3, 3) |-> 1],
      obstacle |-> [p \in Cells(3, 3) |-> p \in S]] : S \in {{}, {<<1, 1>>}}}

Grids ==
    GridsOf(Width, Height, MaxRough, MaxObstacles)
        \cup GridsOf(Width, Height, 0, MaxWalls)
        \cup ScenarioGrids
Pos(g) == Cells(g.width, g.height)

\* ------------------------------------------- specification of the searches
SearchStart(a, src, dst) ==
    CASE a = "bfs" -> BFSInit(src, dst)
      [] a = "ucs" -> UCSInit(src)
      [] a = "astar" -> AStarInit("manhattan", src, dst)

SearchInit ==
    /\ grid \in Grids
    /\ start \in Pos(grid)
    /\ goal \in Pos(grid)
    /\ alg \in {"bfs", "ucs", "astar"}
    /\ search = SearchStart(alg, start, goal)
    /\ NoAgent

StepBFS ==
    /\ alg = "bfs" /\ ~search.done
    /\ search' = BFSStep(grid, goal, search)
    /\ UNCHANGED <<grid, start, goal, alg, agentVars>>

StepUCS ==
    /\ alg = "ucs" /\ ~search.done
    /\ search' = UCSStep(grid, goal, search)
    /\ UNCHANGED <<grid, start, goal, alg, agentVars>>

StepAStar ==
    /\ alg = "astar" /\ ~search.done
    /\ search' = AStarStep(grid, "manhattan", goal, search)
    /\ UNCHANGED <<grid, start, goal, alg, agentVars>>

SearchNext == StepBFS \/ StepUCS \/ StepAStar

SpecSearch == SearchInit /\ [][SearchNext]_vars

\* ---------------------------- specification of the searches, any heuristic
\* the names _get_heuristic_function knows
Heuristics == {"manhattan", "euclidean", "chebyshev"}

\* a 4x2 grid with hills at (2,1) and (0,1) and a static obstacle at
\* (1,1): from (3,1) to (0,1) the cell (2,0) is reached through the hills
\* first and bound again, more cheaply, through (3,0)
DetourGrid ==
    [width |-> 4, height |-> 2,
     terrain |-> [p \in Cells(4, 2) |->
                     IF p \in {<<2, 1>>, <<0, 1>>} THEN 2 ELSE 1],
     obstacle |-> [p \in Cells(4, 2) |-> p = <<1, 1>>]]

\* a BFS, a UniformCostSearch or an AStarSearch with one of its heuristics
\* is constructed over the grid and search is entered; call holds the
\* heuristic handed to the constructor
HeuristicInit ==
    /\ grid \in Grids \cup {DetourGrid}
    /\ start \in Pos(grid)
    /\ goal \in Pos(grid)
    /\ alg \in {"bfs", "ucs", "astar"}
    /\ agent = [state |-> "none"]
    /\ dynamic_grid = NoDynamicGrid
    /\ replan_alg = "none"
    /\ pc = "none"
    /\ result = NoResult
    /\ \E name \in IF alg = "astar" THEN Heuristics ELSE {"manhattan"} :
          /\ call = [op |-> alg, heuristic |-> name, ret |-> FALSE]
          /\ search = IF alg = "astar" THEN AStarInit(name, start, goal)
                      ELSE SearchStart(alg, start, goal)

\* one iteration of the loop of AStarSearch.search under its heuristic
StepAStarWith ==
    /\ alg = "astar" /\ ~search.done
    /\ search' = AStarStep(grid, call.heuristic, goal, search)
    /\ UNCHANGED <<grid, start, goal, alg, agentVars>>

HeuristicNext == StepBFS \/ StepUCS \/ StepAStarWith

SpecHeuristic == HeuristicInit /\ [][HeuristicNext]_vars

\* --------------------------------------- specification of the local search
\* the paths handed over as initial_path: 4-connected walks of traversable
\* cells from src that visit no cell twice, of at most n positions
RECURSIVE walks_from(_, _, _)
walks_from(g, path, n) ==
    {path} \cup
    IF Len(path) >= n THEN {}
    ELSE UNION {walks_from(g, Append(path, q), n) :
             q \in {r \in Pos(g) : /\ OneStep(r, path[Len(path)])
                                   /\ is_traversable(g, r)
                                   /\ \A i \in 1 .. Len(path) : path[i] # r}}

SeedPaths(g, src) == walks_from(g, <<src>>, MaxSeedLen)

LocalGrids ==
    GridsOf(Width, Height, 1, 0) \cup GridsOf(Width, Height, 0, 1)

LocalInit ==
    /\ grid \in LocalGrids
    /\ start \in Pos(grid)
    /\ goal \in Pos(grid)
    /\ alg \in {"hillclimbing", "annealing"}
    /\ \E seed \in SeedPaths(grid, start) \cup {NonePath, <<>>} :
          search = IF alg = "hillclimbing" THEN HCStart(grid, seed)
                   ELSE SAStart(grid, seed)
    /\ NoAgent

StepHillClimbing ==
    /\ alg = "hillclimbing" /\ ~search.done
    /\ search' \in HCStep(grid, start, goal, search)
    /\ UNCHANGED <<grid, start, goal, alg, agentVars>>

StepAnnealing ==
    /\ alg = "annealing" /\ ~search.done
    /\ search.nodes_evaluated < MaxEvaluated
    /\ search' \in SAStep(grid, goal, search)
    /\ UNCHANGED <<grid, start, goal, alg, agentVars>>

LocalNext == StepHillClimbing \/ StepAnnealing

SpecLocal == LocalInit /\ [][LocalNext]_vars
\* ------------------------------------------- specification of the missions
\* the grids of the missions: every cell FLAT, with static obstacles or
\* without any, and one cell not FLAT
UnitCostGrids == GridsOf(Width, Height, 0, MaxObstacles)
OpenGrids == GridsOf(Width, Height, 0, 0)
RoughGrids == GridsOf(Width, Height, 1, 0) \ OpenGrids

\* the schedules handed to add_moving_obstacle: one waypoint, or two, the
\* times 0 and MaxSchedTime in either order
Waypoints(g, t) == {<<t, p[1], p[2]>> : p \in Pos(g)}
Schedules(g) ==
    {<<w>> : w \in Waypoints(g, 0)}
        \cup (Waypoints(g, 0) \X Waypoints(g, MaxSchedTime))
        \cup (Waypoints(g, MaxSchedTime) \X Waypoints(g, 0))

\* the DynamicGrid of a mission: with one moving obstacle registered
MovingGrids(g) ==
    {add_moving_obstacle(NewDynamicGrid, "obs1", schedule) :
        schedule \in Schedules(g)}

\* the DynamicGrid of a mission whose one obstacle has a single waypoint
StationaryGrids(g) ==
    {add_moving_obstacle(NewDynamicGrid, "obs1", <<w>>) :
        w \in Waypoints(g, 0)}

\* the agent is constructed and run_delivery is entered:
\*   - on a grid of unit costs without a DynamicGrid, under every budget;
\*   - on a grid with a rough cell without a DynamicGrid, with every fuel;
\*   - on the open grid with a DynamicGrid, empty or with a moving
\*     obstacle, under the largest budget and every complete
\*     replan_algorithm;
\*   - on the open grid with a local search as the planner, without a
\*     DynamicGrid, under the largest budget and every replan_algorithm;
\*   - on the open grid with a local search as the replan_algorithm and an
\*     obstacle that stays where it is, under the largest budget
DeliveryInit ==
    /\ grid \in UnitCostGrids \cup RoughGrids
    /\ start \in Pos(grid)
    /\ goal \in Pos(grid)
    /\ alg \in Planners
    /\ \/ /\ grid \in UnitCostGrids
          /\ alg \in CompletePlanners
          /\ dynamic_grid = NoDynamicGrid
          /\ replan_alg = "astar"
          /\ \E fuel \in 0 .. MaxFuel, time_limit \in 0 .. MaxTimeLimit :
                agent = NewAgent(start, fuel, time_limit)
       \/ /\ grid \in RoughGrids
          /\ alg \in CompletePlanners
          /\ dynamic_grid = NoDynamicGrid
          /\ replan_alg = "astar"
          /\ \E fuel \in 0 .. MaxFuel :
                agent = NewAgent(start, fuel, MaxTimeLimit)
       \/ /\ grid \in OpenGrids
          /\ alg \in CompletePlanners
          /\ dynamic_grid \in {NewDynamicGrid} \cup MovingGrids(grid)
          /\ replan_alg \in CompletePlanners
          /\ agent = NewAgent(start, MaxFuel, MaxTimeLimit)
       \/ /\ grid \in OpenGrids
          /\ alg \in LocalPlanners
          /\ dynamic_grid = NoDynamicGrid
          /\ replan_alg \in Planners
          /\ agent = NewAgent(start, MaxFuel, MaxTimeLimit)
       \/ /\ grid \in OpenGrids
          /\ alg = "astar"
          /\ dynamic_grid \in StationaryGrids(grid)
          /\ replan_alg \in LocalPlanners
          /\ agent = NewAgent(start, MaxFuel, MaxTimeLimit)
    /\ pc = "plan"
    /\ call = NoCall
    /\ result = NoResult
    /\ search = NoSearch

\* run_delivery: the initial planning
RunPlan ==
    /\ pc = "plan"
    /\ \E r \in plan_path(grid, goal, agent, alg) :
          /\ call' = [op |-> "plan_path", ret |-> r.ret]
          /\ IF r.fault # "none"
             THEN /\ pc' = r.fault
                  /\ UNCHANGED <<agent, result>>
             ELSE IF ~r.ret
             THEN /\ agent' = r.agent
                  /\ result' = get_metrics(r.agent, FALSE)
                  /\ pc' = "done"
             ELSE /\ agent' = [r.agent EXCEPT !.state = "MOVING"]
                  /\ pc' = "loop"
                  /\ UNCHANGED result
    /\ UNCHANGED <<grid, start, goal, searchVars, dynamic_grid, replan_alg>>

\* the test of the while loop of run_delivery
in_loop(ag, dst) == ag.position # dst /\ ag.time_elapsed < ag.time_limit

\* run_delivery: the loop is entered and check_for_replan is called
RunCheck ==
    /\ pc = "loop"
    /\ in_loop(agent, goal)
    /\ LET asked == check_for_replan(grid, agent, dynamic_grid)
       IN  /\ dynamic_grid' = asked.dynamic_grid
           /\ call' = [op |-> "check_for_replan", ret |-> asked.ret]
           /\ IF asked.ret
              THEN /\ agent' = [agent EXCEPT !.state = "REPLANNING"]
                   /\ pc' = "replan"
              ELSE /\ pc' = "move"
                   /\ UNCHANGED agent
    /\ UNCHANGED <<grid, start, goal, searchVars, replan_alg, result>>

\* run_delivery: replan is called
RunReplan ==
    /\ pc = "replan"
    /\ \E r \in replan(grid, goal, agent, replan_alg) :
          /\ call' = [op |-> "replan", ret |-> r.ret]
          /\ IF r.fault # "none"
             THEN /\ agent' = r.agent
                  /\ pc' = r.fault
                  /\ UNCHANGED result
             ELSE IF ~r.ret
             THEN /\ agent' = r.agent
                  /\ result' = get_metrics(r.agent, FALSE)
                  /\ pc' = "done"
             ELSE /\ agent' = [r.agent EXCEPT !.state = "MOVING"]
                  /\ pc' = "move"
                  /\ UNCHANGED result
    /\ UNCHANGED <<grid, start, goal, searchVars, dynamic_grid, replan_alg>>

\* run_delivery: move is called; a refused move breaks out of the loop and
\* the metrics are returned
RunMove ==
    /\ pc = "move"
    /\ LET moved == move(grid, goal, agent)
       IN  /\ agent' = moved.agent
           /\ call' = [op |-> "move", ret |-> moved.ret]
           /\ IF moved.ret
              THEN /\ pc' = "loop"
                   /\ UNCHANGED result
              ELSE /\ pc' = "done"
                   /\ result' = get_metrics(moved.agent,
                                            moved.agent.position = goal)
    /\ UNCHANGED <<grid, start, goal, searchVars, dynamic_grid, replan_alg>>

\* run_delivery: the loop is left by its test and the metrics are returned
RunExit ==
    /\ pc = "loop"
    /\ ~in_loop(agent, goal)
    /\ result' = get_metrics(agent, agent.position = goal)
    /\ pc' = "done"
    /\ UNCHANGED <<grid, start, goal, searchVars, agent, dynamic_grid,
                   replan_alg, call>>

DeliveryNext == RunPlan \/ RunCheck \/ RunReplan \/ RunMove \/ RunExit

SpecDelivery == DeliveryInit /\ [][DeliveryNext]_vars

\* ------------------------- specification of a mission of complete planners
\* run_delivery with bfs, ucs or astar for planning and for replanning, on
\* the open grid under every budget, without a DynamicGrid, with an
\* empty one and with one obstacle that stands on a cell
MissionInit ==
    /\ grid \in OpenGrids
    /\ start \in Pos(grid)
    /\ goal \in Pos(grid)
    /\ alg \in CompletePlanners
    /\ replan_alg \in CompletePlanners
    /\ dynamic_grid \in {NoDynamicGrid, NewDynamicGrid} \cup StationaryGrids(grid)
    /\ \E fuel \in 0 .. MaxFuel, time_limit \in 0 .. MaxTimeLimit :
          agent = NewAgent(start, fuel, time_limit)
    /\ pc = "plan"
    /\ call = NoCall
    /\ result = NoResult
    /\ search = NoSearch

SpecMission == MissionInit /\ [][DeliveryNext]_vars

\* ------------------------------- specification of the agent's operations
\* an agent is constructed and its operations are called one by one, in any
\* order, as a caller of the class can:
\*   - on a grid of unit costs or with a rough cell, without a DynamicGrid,
\*     with every fuel;
\*   - on the open grid without a DynamicGrid, with every time limit;
\*   - on the open grid with a DynamicGrid, empty or with an obstacle that
\*     stays where it is
AgentInit ==
    /\ grid \in UnitCostGrids \cup RoughGrids
    /\ start \in Pos(grid)
    /\ goal \in Pos(grid)
    /\ \/ /\ dynamic_grid = NoDynamicGrid
          /\ \E fuel \in 0 .. MaxFuel :
                agent = NewAgent(start, fuel, MaxTimeLimit)
       \/ /\ grid \in OpenGrids
          /\ dynamic_grid = NoDynamicGrid
          /\ \E time_limit \in 0 .. MaxTimeLimit :
                agent = NewAgent(start, MaxFuel, time_limit)
       \/ /\ grid \in OpenGrids
          /\ dynamic_grid \in
                {NewDynamicGrid} \cup
                {add_moving_obstacle(NewDynamicGrid, "obs1", <<w>>) :
                    w \in Waypoints(grid, 0)}
          /\ agent = NewAgent(start, MaxFuel, MaxTimeLimit)
    /\ alg = "none"
    /\ replan_alg = "none"
    /\ pc = "calls"
    /\ call = NoCall
    /\ result = NoResult
    /\ search = NoSearch

\* agent.plan_path(algorithm)
CallPlanPath ==
    /\ pc = "calls"
    /\ agent.total_nodes_expanded < MaxNodesExpanded
    /\ \E algorithm \in CompletePlanners :
       \E r \in plan_path(grid, goal, agent, algorithm) :
          /\ r.fault = "none"
          /\ agent' = r.agent
          /\ call' = [op |-> "plan_path", ret |-> r.ret]
    /\ UNCHANGED <<grid, start, goal, searchVars, dynamic_grid, replan_alg,
                   pc, result>>

\* agent.move()
CallMove ==
    /\ pc = "calls"
    /\ LET moved == move(grid, goal, agent)
       IN  /\ agent' = moved.agent
           /\ call' = [op |-> "move", ret |-> moved.ret]
    /\ UNCHANGED <<grid, start, goal, searchVars, dynamic_grid, replan_alg,
                   pc, result>>

\* agent.check_for_replan(dynamic_grid)
CallCheckForReplan ==
    /\ pc = "calls"
    /\ LET asked == check_for_replan(grid, agent, dynamic_grid)
       IN  /\ dynamic_grid' = asked.dynamic_grid
           /\ call' = [op |-> "check_for_replan", ret |-> asked.ret]
    /\ UNCHANGED <<grid, start, goal, searchVars, agent, replan_alg, pc,
                   result>>

\* agent.replan(algorithm)
CallReplan ==
    /\ pc = "calls"
    /\ agent.replan_count < MaxReplans
    /\ agent.total_nodes_expanded < MaxNodesExpanded
    /\ \E algorithm \in CompletePlanners :
       \E r \in replan(grid, goal, agent, algorithm) :
          /\ r.fault = "none"
          /\ agent' = r.agent
          /\ call' = [op |-> "replan", ret |-> r.ret]
    /\ UNCHANGED <<grid, start, goal, searchVars, dynamic_grid, replan_alg,
                   pc, result>>

AgentNext == CallPlanPath \/ CallMove \/ CallCheckForReplan \/ CallReplan

SpecAgent == AgentInit /\ [][AgentNext]_vars

\* ------------------------------------ specification of a moving obstacle
\* the schedules a caller registers: one to MaxWaypoints waypoints on the
\* cells of g, in any order of their times, times shared or not
RawSchedules(g) ==
    LET ws == UNION {Waypoints(g, t) : t \in 0 .. MaxSchedTime}
    IN  UNION {[1 .. n -> ws] : n \in 1 .. MaxWaypoints}

\* add_moving_obstacle has constructed a MovingObstacle from a schedule
ScheduleInit ==
    /\ grid \in OpenGrids
    /\ start = <<0, 0>>
    /\ goal = <<0, 0>>
    /\ alg = "none"
    /\ search = NoSearch
    /\ agent = [state |-> "none"]
    /\ replan_alg = "none"
    /\ pc = "none"
    /\ result = NoResult
    /\ \E schedule \in RawSchedules(grid) :
          /\ dynamic_grid = add_moving_obstacle(NewDynamicGrid, "obs1",
                                                schedule)
          /\ call = [op |-> "add_moving_obstacle", schedule |-> schedule,
                     time |-> 0, ret |-> <<>>]

\* get_position_at_time is called on the obstacle
CallGetPositionAtTime ==
    /\ \E time \in 0 .. (MaxSchedTime + 1) :
          call' = [op |-> "get_position_at_time",
                   schedule |-> call.schedule,
                   time |-> time,
                   ret |-> get_position_at_time(
                               dynamic_grid.moving_obstacles["obs1"], time)]
    /\ UNCHANGED <<grid, start, goal, searchVars, agent, dynamic_grid,
                   replan_alg, pc, result>>

ScheduleNext == CallGetPositionAtTime

SpecSchedule == ScheduleInit /\ [][ScheduleNext]_vars

\* ----------------------------------------- specification of a DynamicGrid
\* the positions queried: the cells of g and two positions out of bounds
QueryPositions(g) == Pos(g) \cup {<<-1, 0>>, <<g.width, g.height>>}

\* a DynamicGrid is constructed over a grid of unit costs
ObstaclesInit ==
    /\ grid \in UnitCostGrids
    /\ start = <<0, 0>>
    /\ goal = <<0, 0>>
    /\ alg = "none"
    /\ search = NoSearch
    /\ agent = [state |-> "none"]
    /\ replan_alg = "none"
    /\ pc = "none"
    /\ result = NoResult
    /\ dynamic_grid = NewDynamicGrid
    /\ call = [op |-> "DynamicGrid", pos |-> <<0, 0>>, time |-> 0,
               ret |-> FALSE, before |-> {}]

\* add_moving_obstacle registers "obs1" with a schedule of two waypoints,
\* or "obs2" with an obstacle that stays where it is
CallAddMovingObstacle ==
    /\ \E obstacle_id \in {"obs1", "obs2"} \ DOMAIN dynamic_grid.moving_obstacles :
          \E schedule \in IF obstacle_id = "obs1"
                          THEN Waypoints(grid, 0)
                                   \X Waypoints(grid, MaxSchedTime)
                          ELSE {<<w>> : w \in Waypoints(grid, 0)} :
              dynamic_grid' = add_moving_obstacle(dynamic_grid, obstacle_id,
                                                  schedule)
    /\ call' = [op |-> "add_moving_obstacle", pos |-> <<0, 0>>, time |-> 0,
                ret |-> FALSE, before |-> dynamic_grid.dynamic_obstacles]
    /\ UNCHANGED <<grid, start, goal, searchVars, agent, replan_alg, pc,
                   result>>

\* DynamicGrid.is_traversable is called; before is the occupancy set the
\* call found
CallIsTraversable ==
    /\ \E p \in QueryPositions(grid), time \in 0 .. MaxSchedTime :
          LET answer == dynamic_is_traversable(grid, dynamic_grid, p, time)
          IN  /\ dynamic_grid' = answer.dynamic_grid
              /\ call' = [op |-> "is_traversable", pos |-> p, time |-> time,
                          ret |-> answer.ret,
                          before |-> dynamic_grid.dynamic_obstacles]
    /\ UNCHANGED <<grid, start, goal, searchVars, agent, replan_alg, pc,
                   result>>

ObstaclesNext == CallAddMovingObstacle \/ CallIsTraversable

SpecObstacles == ObstaclesInit /\ [][ObstaclesNext]_vars

\* ------------------------------------------------ specification of a Grid
\* the coordinates handed to the grid: its cells, and positions out of
\* bounds below and above on either axis and on both
Coordinates(g) ==
    Pos(g) \cup {<<-1, 0>>, <<0, -1>>, <<-1, -1>>,
                 <<g.width, 0>>, <<0, g.height>>, <<g.width, g.height>>}

\* a Grid is constructed, all FLAT and without obstacles, and a DynamicGrid
\* over it with an obstacle that stays in the far corner
GridInit ==
    /\ grid \in OpenGrids
    /\ start = <<0, 0>>
    /\ goal = <<0, 0>>
    /\ alg = "none"
    /\ search = NoSearch
    /\ agent = [state |-> "none"]
    /\ replan_alg = "none"
    /\ pc = "none"
    /\ result = NoResult
    /\ dynamic_grid =
           add_moving_obstacle(NewDynamicGrid, "obs1",
               << <<0, grid.width - 1, grid.height - 1>> >>)
    /\ call = [op |-> "Grid", pos |-> <<0, 0>>, ret |-> FALSE]

\* set_terrain is called; at most MaxRough cells are made rough
CallSetTerrain ==
    /\ \E p \in Coordinates(grid), terrain \in 1 .. MaxTerrain :
          /\ grid' = set_terrain(grid, p, terrain)
          /\ Cardinality({q \in Pos(grid) : grid'.terrain[q] # 1})
                <= MaxRough
          /\ call' = [op |-> "set_terrain", pos |-> p, ret |-> FALSE]
    /\ UNCHANGED <<start, goal, searchVars, agent, dynamic_grid,
                   replan_alg, pc, result>>

\* set_obstacle is called; at most MaxObstacles cells are made obstacles
CallSetObstacle ==
    /\ \E p \in Coordinates(grid), is_obstacle \in BOOLEAN :
          /\ grid' = set_obstacle(grid, p, is_obstacle)
          /\ Cardinality({q \in Pos(grid) : grid'.obstacle[q]})
                <= MaxObstacles
          /\ call' = [op |-> "set_obstacle", pos |-> p, ret |-> FALSE]
    /\ UNCHANGED <<start, goal, searchVars, agent, dynamic_grid,
                   replan_alg, pc, result>>

\* Grid.get_cost is called
CallGetCost ==
    /\ \E p \in Coordinates(grid) :
          call' = [op |-> "get_cost", pos |-> p, ret |-> get_cost(grid, p)]
    /\ UNCHANGED <<grid, start, goal, searchVars, agent, dynamic_grid,
                   replan_alg, pc, result>>

\* Grid.is_traversable is called
CallGridIsTraversable ==
    /\ \E p \in Coordinates(grid) :
          call' = [op |-> "Grid.is_traversable", pos |-> p,
                   ret |-> is_traversable(grid, p)]
    /\ UNCHANGED <<grid, start, goal, searchVars, agent, dynamic_grid,
                   replan_alg, pc, result>>

\* DynamicGrid.is_traversable is called, with the default time
CallDynamicIsTraversable ==
    /\ \E p \in Coordinates(grid) :
          LET answer == dynamic_is_traversable(grid, dynamic_grid, p, 0)
          IN  /\ dynamic_grid' = answer.dynamic_grid
              /\ call' = [op |-> "DynamicGrid.is_traversable", pos |-> p,
                          ret |-> answer.ret]
    /\ UNCHANGED <<grid, start, goal, searchVars, agent, replan_alg, pc,
                   result>>

GridNext ==
    \/ CallSetTerrain
    \/ CallSetObstacle
    \/ CallGetCost
    \/ CallGridIsTraversable
    \/ CallDynamicIsTraversable

SpecGrid == GridInit /\ [][GridNext]_vars

\* ------------------------------- specification of the mutation primitive
\* a HillClimbing is constructed over a grid and holds a path from start to
\* goal: a 4-connected walk of traversable cells that visits no cell twice
MutateInit ==
    /\ grid \in LocalGrids
    /\ start \in {p \in Pos(grid) : is_traversable(grid, p)}
    /\ \E path \in SeedPaths(grid, start) :
          /\ goal = path[Len(path)]
          /\ call = [op |-> "HillClimbing", path |-> path, ret |-> path]
    /\ alg = "hillclimbing"
    /\ search = NoSearch
    /\ agent = [state |-> "none"]
    /\ dynamic_grid = NoDynamicGrid
    /\ replan_alg = "none"
    /\ pc = "none"
    /\ result = NoResult

\* mutate_path is called on the path, with any draw of the segment
CallMutatePath ==
    /\ \E mutated \in mutate_path(grid, call.path) :
          call' = [op |-> "mutate_path", path |-> call.path, ret |-> mutated]
    /\ UNCHANGED <<grid, start, goal, searchVars, agent, dynamic_grid,
                   replan_alg, pc, result>>

MutateNext == CallMutatePath

SpecMutate == MutateInit /\ [][MutateNext]_vars

\* ------------------------------------------------ reference definitions
SetMin(S) == CHOOSE m \in S : \A n \in S : m <= n

\* the distances d from a source are a set of pairs <<cell, distance>>
DistOf(d, p) == (CHOOSE e \in d : e[1] = p)[2]

\* one round of relaxation of the distances d: a cell is entered from a
\* cell one step away, only if it is traversable, at the price w[p] of the
\* cell entered
RelaxAll(g, w, d) ==
    {<<p, IF ~is_traversable(g, p) THEN DistOf(d, p)
          ELSE SetMin({DistOf(d, p)} \cup {e[2] + w[p] :
                   e \in {r \in d : OneStep(r[1], p) /\ r[2] < Infinity}})>> :
        p \in Pos(g)}

RECURSIVE RelaxRounds(_, _, _, _)
RelaxRounds(g, w, d, k) ==
    IF k = 0 THEN d
    ELSE CHOOSE r \in {RelaxRounds(g, w, e, k - 1) : e \in {RelaxAll(g, w, d)}} : TRUE

\* the least total of w over the cells entered, over all 4-connected paths
\* of traversable cells from src to dst (Infinity when there is none)
LeastTotal(g, w, src, dst) ==
    DistOf(RelaxRounds(g, w, {<<p, IF p = src THEN 0 ELSE Infinity>> : p \in Pos(g)},
                       Cardinality(Pos(g))), dst)

LeastCost(g, src, dst) ==
    LeastTotal(g, [p \in Pos(g) |-> TerrainCost(g.terrain[p])], src, dst)

HopDistance(g, src, dst) ==
    LeastTotal(g, [p \in Pos(g) |-> 1], src, dst)

Reachable(g, src, dst) == HopDistance(g, src, dst) < Infinity

FlatGrid3x3 ==
    [width |-> 3, height |-> 3, terrain |-> [p \in Cells(3, 3) |-> 1],
     obstacle |-> [p \in Cells(3, 3) |-> FALSE]]

\* ------------------------------------------------------------------ claims
\* C1: UniformCostSearch.search returns a least-cost path: whenever the goal
\* is reachable, the cost it returns is the minimum over all 4-connected
\* paths of traversable cells of the sum of the costs of the cells entered.
C1_UCSLeastCost ==
    (alg = "ucs" /\ search.done /\ Reachable(grid, start, goal))
        => /\ search.path # <<>>
           /\ search.cost = LeastCost(grid, start, goal)

\* a finished uniform-cost search over rough terrain whose path is cheaper
\* than the fewest-hops path breadth-first search returns
C1_Witness ==
    /\ alg = "ucs" /\ search.done
    /\ Reachable(grid, start, goal)
    /\ search.cost = LeastCost(grid, start, goal)
    /\ search.cost > Len(search.path) - 1
    /\ search.cost < BFS(grid, start, goal).cost

\* C2: BFS.search returns a path with the fewest hops: whenever the goal is
\* reachable the number of steps of the returned path is the 4-connected
\* hop distance; on the 3x3 all-flat grid from (0,0) to (2,2) the path has
\* 5 waypoints and cost 4.
C2_BFSFewestHops ==
    (alg = "bfs" /\ search.done)
        => /\ Reachable(grid, start, goal)
                => Len(search.path) - 1 = HopDistance(grid, start, goal)
           /\ (grid = FlatGrid3x3 /\ start = <<0, 0>> /\ goal = <<2, 2>>)
                => (Len(search.path) = 5 /\ search.cost = 4)

\* a finished breadth-first search whose fewest-hops path is not the
\* cheapest one
C2_Witness ==
    /\ alg = "bfs" /\ search.done
    /\ Reachable(grid, start, goal)
    /\ Len(search.path) - 1 = HopDistance(grid, start, goal)
    /\ Len(search.path) >= 3
    /\ search.cost > LeastCost(grid, start, goal)

\* C3: optimality parity: AStarSearch.search with the Manhattan heuristic
\* and UniformCostSearch.search return the same total cost on every grid
\* and start/goal pair, both infinite when the goal is unreachable.
C3_AStarUCSParity ==
    (alg = "astar" /\ search.done)
        => /\ search.cost = UniformCostSearch(grid, start, goal).cost
           /\ ~Reachable(grid, start, goal) => search.cost = Infinity

\* a finished A* search that returned another path than uniform-cost
\* search, of the same cost, over rough terrain
C3_Witness ==
    /\ alg = "astar" /\ search.done
    /\ search.path # <<>>
    /\ search.path # UniformCostSearch(grid, start, goal).path
    /\ search.cost = UniformCostSearch(grid, start, goal).cost
    /\ search.cost > Len(search.path) - 1

\* C4: on every instance the nodes-expanded count of AStarSearch.search
\* with the Manhattan heuristic is at most that of UniformCostSearch.search
\* (each the number of frontier pops).
C4_AStarExpandsNoMore ==
    (alg = "astar" /\ search.done)
        => search.nodes_expanded
               <= UniformCostSearch(grid, start, goal).nodes_expanded

\* C5: every non-empty path returned by BFS, UniformCostSearch or
\* AStarSearch starts at the queried start, ends at the queried goal, and
\* every consecutive pair of positions is exactly one 4-connected step apart.
C5_PathWellFormed ==
    (search.done /\ search.path # <<>>)
        => /\ search.path[1] = start
           /\ search.path[Len(search.path)] = goal
           /\ \A i \in 1 .. (Len(search.path) - 1) :
                 OneStep(search.path[i], search.path[i + 1])

\* a returned path of at least four steps that leaves an obstacle start
C5_Witness ==
    /\ search.done
    /\ alg = "astar"
    /\ Len(search.path) >= 5
    /\ search.path[1] = start
    /\ search.path[Len(search.path)] = goal

\* C6: when hill climbing or simulated annealing returns (no exception
\* raised), a path in the returned tuple ends at the goal of the query.
C6_LocalSearchEndsAtGoal ==
    (/\ alg \in {"hillclimbing", "annealing"}
     /\ search.done /\ ~search.raised
     /\ ~Falsy(search.path))
        => search.path[Len(search.path)] = goal

\* the position of a registered moving obstacle at a time
OccupiedAt(dg, p, time) ==
    \E k \in DOMAIN dg.moving_obstacles :
        get_position_at_time(dg.moving_obstacles[k], time) = p

\* C7: in a mission run against a DynamicGrid, every accepted move enters a
\* cell that the DynamicGrid reports traversable at the elapsed time the
\* agent has after the move.
C7_MovesIntoTraversableCells ==
    [][(/\ pc = "move"
        /\ dynamic_grid.present
        /\ call'.op = "move" /\ call'.ret)
          => dynamic_is_traversable(grid, dynamic_grid, agent'.position,
                                    agent'.time_elapsed).ret]_vars

\* a moving obstacle occupies the committed path's next waypoint at the
\* projected arrival time
NextWaypointOccupied ==
    /\ dynamic_grid.present
    /\ Len(agent.path) >= 2
    /\ OccupiedAt(dynamic_grid, agent.path[2], agent.time_elapsed + 1)

\* C8: in run_delivery, whenever a moving obstacle occupies the committed
\* path's next waypoint at the projected arrival time (elapsed + 1), the
\* invalidation check answers that a replan is needed, and replan is
\* invoked, incrementing the replan counter, before a move is attempted:
\* the agent changes position only in the move that follows.
C8_ReplanBeforeBlockedMove ==
    [][/\ (pc = "loop" /\ in_loop(agent, goal) /\ NextWaypointOccupied)
           => /\ call' = [op |-> "check_for_replan", ret |-> TRUE]
              /\ pc' = "replan"
              /\ agent'.position = agent.position
       /\ pc = "replan"
           => /\ call'.op = "replan"
              /\ agent'.replan_count = agent.replan_count + 1
              /\ agent'.position = agent.position
       /\ agent'.position # agent.position
           => pc = "move" /\ call'.op = "move"]_vars

\* the check has failed on an occupied next waypoint only, replan has run
\* and the move is about to be attempted
C8_Witness ==
    /\ pc = "move"
    /\ call = [op |-> "replan", ret |-> TRUE]
    /\ agent.replan_count >= 1
    /\ NextWaypointOccupied
    /\ ~OccupiedAt(dynamic_grid, agent.path[1], agent.time_elapsed)
    /\ \A i \in 3 .. Len(agent.path) :
           ~OccupiedAt(dynamic_grid, agent.path[i],
                       agent.time_elapsed + i - 1)

\* C9: whenever move returns failure, no attribute of the agent is changed:
\* position, path, cost, elapsed time, remaining fuel, lifecycle state and
\* both counters.
C9_RefusedMoveChangesNothing ==
    [][(call'.op = "move" /\ ~call'.ret) => agent' = agent]_vars

\* every cell of the grid costs 1
UnitCosts(g) == \A p \in Pos(g) : get_cost(g, p) = 1

\* C10: an agent with initial fuel F on a grid where every step costs 1,
\* without moving obstacles, with a time limit larger than F and a goal that
\* is reached in no fewer than F + 1 steps: run_delivery with a complete
\* planner makes exactly F accepted moves and returns fuel_remaining = 0 and
\* success = false.
C10_StopsWhenFuelIsSpent ==
    (/\ pc = "done"
     /\ alg \in CompletePlanners
     /\ UnitCosts(grid)
     /\ DOMAIN dynamic_grid.moving_obstacles = {}
     /\ agent.time_limit > agent.fuel
     /\ Reachable(grid, start, goal)
     /\ HopDistance(grid, start, goal) > agent.fuel)
        => /\ result.time_elapsed = agent.fuel
           /\ result.total_cost = agent.fuel
           /\ result.fuel_remaining = 0
           /\ ~result.success
           /\ call = [op |-> "move", ret |-> FALSE]

C10_Witness ==
    /\ pc = "done"
    /\ UnitCosts(grid)
    /\ DOMAIN dynamic_grid.moving_obstacles = {}
    /\ agent.fuel = 2
    /\ agent.time_limit > agent.fuel
    /\ Reachable(grid, start, goal)
    /\ HopDistance(grid, start, goal) > agent.fuel
    /\ result.time_elapsed = 2
    /\ result.fuel_remaining = 0
    /\ ~result.success

\* C11: whenever run_delivery has returned, the success flag of the mission
\* result is true if and only if the agent's final position equals the goal,
\* for every planner and every start and goal, start = goal included.
C11_SuccessIffAtGoal ==
    pc = "done" => (result.success <=> result.final_position = goal)

\* C12: planning never raises: run_delivery with each of the five planners,
\* and replan with each of them, ends in a returned outcome and never in a
\* raised fault.
C12_PlanningNeverRaises == pc # "raised"

\* a route of statically traversable cells, the start cell included
StaticRoute(g, src, dst) == is_traversable(g, src) /\ Reachable(g, src, dst)

\* C13 (as stated): BFS, UniformCostSearch and AStarSearch return an empty
\* path with infinite cost exactly when no 4-connected route of statically
\* traversable cells leads from start to goal.
C13_EmptyIffNoStaticRoute ==
    search.done
        => ((search.path = <<>> /\ search.cost = Infinity)
                <=> ~StaticRoute(grid, start, goal))

\* C13: BFS, UniformCostSearch and AStarSearch return an empty path with
\* infinite cost exactly when no 4-connected route leads from start to goal
\* through cells that are statically traversable after the start cell; when
\* there is such a route, a non-empty path of finite cost is returned.
C13_EmptyIffUnreachable ==
    search.done
        => IF Reachable(grid, start, goal)
           THEN search.path # <<>> /\ search.cost < Infinity
           ELSE search.path = <<>> /\ search.cost = Infinity

\* a search that exhausted its frontier, from a traversable start, after
\* expanding several nodes
C13_Witness ==
    /\ search.done
    /\ is_traversable(grid, start)
    /\ ~Reachable(grid, start, goal)
    /\ search.path = <<>>
    /\ search.cost = Infinity
    /\ search.nodes_expanded >= 3

\* C14: on every grid whose cells all cost 1, with any static obstacles, and
\* for every start and goal, BFS.search and UniformCostSearch.search return
\* paths of equal length and equal cost.
C14_BFSUCSParity ==
    (search.done /\ UnitCosts(grid))
        => /\ alg = "bfs"
                => LET ucs == UniformCostSearch(grid, start, goal)
                   IN  /\ Len(search.path) = Len(ucs.path)
                       /\ search.cost = ucs.cost
           /\ alg = "ucs"
                => LET bfs == BFS(grid, start, goal)
                   IN  /\ Len(search.path) = Len(bfs.path)
                       /\ search.cost = bfs.cost

\* on a grid of unit costs with an obstacle, breadth-first search has
\* returned another path than uniform-cost search, of the same length
C14_Witness ==
    /\ search.done /\ alg = "bfs"
    /\ UnitCosts(grid)
    /\ \E p \in Pos(grid) : grid.obstacle[p]
    /\ Len(search.path) >= 3
    /\ search.path # UniformCostSearch(grid, start, goal).path
    /\ Len(search.path) = Len(UniformCostSearch(grid, start, goal).path)

\* the grid of end-to-end scenario B: 3x3, all flat, (1,1) a static obstacle
ObstacleGrid3x3 == [FlatGrid3x3 EXCEPT !.obstacle[<<1, 1>>] = TRUE]

\* C15: no path returned by BFS, UniformCostSearch or AStarSearch contains
\* a static-obstacle cell after its first element; on the 3x3 flat grid
\* with the obstacle (1,1) the path from (0,0) to (2,2) avoids (1,1) and
\* costs at least 4.
C15_PathAvoidsObstacles ==
    search.done
        => /\ \A i \in 2 .. Len(search.path) :
                 is_traversable(grid, search.path[i])
           /\ (grid = ObstacleGrid3x3 /\ start = <<0, 0>> /\ goal = <<2, 2>>)
                => /\ search.path # <<>>
                   /\ \A i \in 1 .. Len(search.path) :
                          search.path[i] # <<1, 1>>
                   /\ search.cost >= 4

\* scenario B has been searched by A*: a path of five cells around (1,1)
C15_Witness ==
    /\ search.done /\ alg = "astar"
    /\ grid = ObstacleGrid3x3 /\ start = <<0, 0>> /\ goal = <<2, 2>>
    /\ Len(search.path) = 5
    /\ search.cost = 4
    /\ \A i \in 1 .. Len(search.path) : search.path[i] # <<1, 1>>

\* the waypoints of a schedule at time t, by their index in the order given
WaypointsAt(schedule, t) == {i \in DOMAIN schedule : schedule[i][1] = t}
WaypointPos(w) == <<w[2], w[3]>>
FirstTime(schedule) == SetMin({schedule[i][1] : i \in DOMAIN schedule})
LastTime(schedule) == -SetMin({-schedule[i][1] : i \in DOMAIN schedule})
DistinctTimes(schedule) ==
    \A i, j \in DOMAIN schedule : schedule[i][1] = schedule[j][1] => i = j

\* C16 (as stated): for every schedule, times shared or not, and every
\* waypoint (t, x, y) in it, get_position_at_time(t) returns (x, y); before
\* the first waypoint time the first waypoint's coordinates are returned and
\* after the last the last one's.
C16_ExactAtEveryWaypoint ==
    call.op = "get_position_at_time"
        => /\ \A i \in WaypointsAt(call.schedule, call.time) :
                 call.ret = WaypointPos(call.schedule[i])
           /\ call.time < FirstTime(call.schedule)
                => \A i \in WaypointsAt(call.schedule,
                                        FirstTime(call.schedule)) :
                       call.ret = WaypointPos(call.schedule[i])
           /\ call.time > LastTime(call.schedule)
                => \A i \in WaypointsAt(call.schedule,
                                        LastTime(call.schedule)) :
                       call.ret = WaypointPos(call.schedule[i])

\* C16: for every schedule whose waypoints have pairwise distinct times and
\* every waypoint (t, x, y) in it, get_position_at_time(t) returns (x, y),
\* and a time before the first or after the last waypoint time returns the
\* first or the last waypoint's coordinates. Where waypoints share the time
\* queried, the coordinates of one of them are returned: the last given of
\* them if the time is the last of the schedule and not the first, the
\* first given of them otherwise; before the first time the first given of
\* the earliest waypoints, after the last time the last given of the latest.
C16_ExactAtWaypoints ==
    call.op = "get_position_at_time"
        => LET schedule == call.schedule
               first == FirstTime(schedule)
               last == LastTime(schedule)
               at == WaypointsAt(schedule, call.time)
               earliest == SetMin(WaypointsAt(schedule, first))
               latest == -SetMin({-i : i \in WaypointsAt(schedule, last)})
           IN  /\ DistinctTimes(schedule)
                    => \A i \in at : call.ret = WaypointPos(schedule[i])
               /\ (at # {} /\ first < call.time /\ call.time = last)
                    => call.ret = WaypointPos(schedule[latest])
               /\ (at # {} /\ ~(first < call.time /\ call.time = last))
                    => call.ret = WaypointPos(schedule[SetMin(at)])
               /\ call.time < first
                    => call.ret = WaypointPos(schedule[earliest])
               /\ call.time > last
                    => call.ret = WaypointPos(schedule[latest])

\* a schedule of three waypoints of distinct times, given out of order, has
\* been queried at the time of its middle waypoint, which lies on neither
\* of the other two positions
C16_Witness ==
    /\ call.op = "get_position_at_time"
    /\ Len(call.schedule) = 3
    /\ DistinctTimes(call.schedule)
    /\ call.schedule[1][1] = call.time
    /\ call.schedule[2][1] > call.time
    /\ call.schedule[3][1] < call.time
    /\ call.ret = WaypointPos(call.schedule[1])
    /\ call.ret # WaypointPos(call.schedule[2])
    /\ call.ret # WaypointPos(call.schedule[3])

\* C17: the result of DynamicGrid.is_traversable(x, y, t) is the static
\* traversability of (x, y) and (x, y) not being the position of a
\* registered moving obstacle at time t, after any sequence of earlier
\* queries at other times and positions.
C17_TraversableIffFreeAtTime ==
    call.op = "is_traversable"
        => (call.ret <=> (/\ is_traversable(grid, call.pos)
                          /\ ~OccupiedAt(dynamic_grid, call.pos, call.time)))

\* a cell that an earlier query had flagged as occupied is reported
\* traversable at a time when the obstacle has moved on
C17_Witness ==
    /\ call.op = "is_traversable"
    /\ call.ret
    /\ call.pos \in call.before
    /\ \E time \in 0 .. MaxSchedTime :
           OccupiedAt(dynamic_grid, call.pos, time)

\* C18: out-of-bounds coordinates are never clamped or wrapped: for every
\* (x, y) outside [0,width) x [0,height), negative coordinates included,
\* Grid.is_traversable and DynamicGrid.is_traversable return false,
\* get_cost returns infinity, and set_terrain and set_obstacle leave every
\* cell of the grid unchanged.
C18_OutOfBoundsRejected ==
    [][~is_valid_position(grid, call'.pos)
         => /\ call'.op \in {"Grid.is_traversable",
                              "DynamicGrid.is_traversable"}
                 => call'.ret = FALSE
            /\ call'.op = "get_cost" => call'.ret = Infinity
            /\ call'.op \in {"set_terrain", "set_obstacle"}
                 => grid' = grid]_vars

\* set_obstacle has been called with a negative coordinate on a grid that
\* has a rough cell and an obstacle
C18_Witness ==
    /\ call.op = "set_obstacle"
    /\ call.pos[1] < 0
    /\ \E q \in Pos(grid) : grid.terrain[q] # 1
    /\ \E q \in Pos(grid) : grid.obstacle[q]

\* C19: the mutation primitive preserves path validity: for every path that
\* is a 4-connected sequence of traversable cells and every draw of the
\* segment, mutate_path returns a path with the same first element, the
\* same last element, and every consecutive pair of positions one
\* 4-connected step apart.
C19_MutationKeepsPathValid ==
    call.op = "mutate_path"
        => /\ call.ret # <<>>
           /\ call.ret[1] = call.path[1]
           /\ call.ret[Len(call.ret)] = call.path[Len(call.path)]
           /\ \A i \in 1 .. (Len(call.ret) - 1) :
                  OneStep(call.ret[i], call.ret[i + 1])

\* C20: SimulatedAnnealing.search terminates for every non-empty seed path,
\* start and goal: every pass of its loop decays the temperature by the
\* cooling rate, so that the loop is left after a bounded number of passes.
C20_AnnealingCoolsEveryPass ==
    [][(/\ alg = "annealing"
        /\ ~search.done
        /\ search.current_path # <<>>
        /\ sa_hot(search.temperature))
          => search'.temperature =
                 [num |-> search.temperature.num * cooling_rate.num,
                  den |-> search.temperature.den * cooling_rate.den]]_vars

\* C21: a mission that ends successfully leaves the agent in the Completed
\* lifecycle state: whenever run_delivery has returned with success true,
\* the agent's state is COMPLETED.
C21_SuccessLeavesCompleted ==
    (pc = "done" /\ result.success) => agent.state = "COMPLETED"

\* C22: after every call of DynamicGrid.is_traversable(x, y, t), whatever
\* its result, dynamic_obstacles is exactly the set of the positions of all
\* registered moving obstacles at the time t of that call.
C22_OccupancyOfLastQueriedTime ==
    call.op = "is_traversable"
        => dynamic_grid.dynamic_obstacles =
               {get_position_at_time(dynamic_grid.moving_obstacles[k],
                                     call.time) :
                   k \in DOMAIN dynamic_grid.moving_obstacles}

\* the sum of the terrain costs of the cells entered along a path: every
\* element but the first, read from the terrain table of the grid
RECURSIVE EnteredCellsCost(_, _, _)
EnteredCellsCost(g, path, n) ==
    IF n < 2 THEN 0
    ELSE EnteredCellsCost(g, path, n - 1) + TerrainCost(g.terrain[path[n]])

\* the positions for which the search created two nodes of different cost:
\* the cost and parent bound to the position were rebound by a relaxation
Rebound(st) ==
    {st.nodes[i].pos : i \in {j \in DOMAIN st.nodes :
        \E k \in DOMAIN st.nodes :
            st.nodes[k].pos = st.nodes[j].pos /\ st.nodes[k].cost < st.nodes[j].cost}}

\* C23: for BFS, UniformCostSearch and AStarSearch under every heuristic,
\* the cost returned with a non-empty path is the sum of the costs of the
\* cells entered along exactly that path (the origin contributes nothing),
\* also when the cost and parent of a position were rebound by a cheaper
\* relaxation.
C23_CostIsSumAlongPath ==
    (search.done /\ search.path # <<>>)
        => search.cost = EnteredCellsCost(grid, search.path, Len(search.path))

\* A* under a heuristic other than Manhattan returned a path through a
\* rough cell and a position of that path had been rebound
C23_Witness ==
    /\ search.done
    /\ alg = "astar"
    /\ call.heuristic # "manhattan"
    /\ Len(search.path) >= 3
    /\ search.cost > Len(search.path) - 1
    /\ \E i \in 1 .. Len(search.path) : search.path[i] \in Rebound(search)

\* the search of the given algorithm and heuristic, run to its return
SearchOf(a, name, g, src, dst) ==
    CASE a = "bfs" -> BFS(g, src, dst)
      [] a = "ucs" -> UniformCostSearch(g, src, dst)
      [] a = "astar" -> AStarSearch(g, name, src, dst)

\* C24: the start node is explored whatever its own obstacle flag: for BFS,
\* UniformCostSearch and AStarSearch, the path and cost returned from a
\* start cell that is a static obstacle are those returned on the same grid
\* with only the obstacle flag of the start cell cleared.
C24_StartObstacleIgnored ==
    (search.done /\ grid.obstacle[start])
        => LET cleared == SearchOf(alg, call.heuristic,
                                   set_obstacle(grid, start, FALSE), start, goal)
           IN  /\ search.path = cleared.path
               /\ search.cost = cleared.cost

\* a search from an obstacle cell returned a path of several steps
C24_Witness ==
    /\ search.done
    /\ grid.obstacle[start]
    /\ Len(search.path) >= 3
    /\ search.path[1] = start
    /\ search.cost < Infinity

\* C25 as claimed: the Chebyshev heuristic can overestimate on this grid
\* topology and break optimality: there are a grid, a start and a goal on
\* which AStarSearch.search with the Chebyshev heuristic returns a cost
\* strictly greater than the cost returned by UniformCostSearch.search
\* (among the grids of the size of the grid at hand).
C25_ChebyshevBreaksOptimality ==
    \E g \in {h \in Grids \cup {DetourGrid} :
                 h.width = grid.width /\ h.height = grid.height} :
        \E src \in Pos(g), dst \in Pos(g) :
            AStarSearch(g, "chebyshev", src, dst).cost
                > UniformCostSearch(g, src, dst).cost

\* C25, amended: the Chebyshev distance never exceeds the cost of the
\* cheapest route on this grid topology, and on every grid, start and goal
\* AStarSearch.search with the Chebyshev heuristic returns the cost that
\* UniformCostSearch.search returns.
C25_ChebyshevKeepsOptimality ==
    (search.done /\ alg = "astar" /\ call.heuristic = "chebyshev")
        => /\ search.cost = UniformCostSearch(grid, start, goal).cost
           /\ chebyshev_distance(start, goal) <= search.cost

\* A* under Chebyshev returned a route over rough ground between cells
\* for which the Chebyshev distance is below the Manhattan distance
C25_Witness ==
    /\ search.done
    /\ alg = "astar"
    /\ call.heuristic = "chebyshev"
    /\ Len(search.path) >= 4
    /\ search.cost > Len(search.path) - 1
    /\ chebyshev_distance(start, goal) < manhattan_distance(start, goal)

\* C26: every accepted move of a mission run by run_delivery, under every
\* planning and replanning strategy, takes the agent to a cell that is
\* 4-adjacent to the position it held before the move: the agent never
\* jumps over a cell, stays in place or moves diagonally.
C26_MovesAreSingleSteps ==
    [][(pc = "move" /\ call'.op = "move" /\ call'.ret)
          => OneStep(agent.position, agent'.position)]_vars

\* C27: fuel accounting: in every state reached through any sequence of
\* plan_path, check_for_replan, replan and move from an agent created with
\* initial fuel F >= 0, the remaining fuel is never negative and the
\* accumulated cost plus the remaining fuel is F.
C27_FuelAccounting ==
    /\ agent.fuel_remaining >= 0
    /\ agent.cost + agent.fuel_remaining = agent.fuel

\* an accepted move onto rough ground spent the last of the fuel
C27_Witness ==
    /\ call.op = "move"
    /\ call.ret
    /\ agent.fuel_remaining = 0
    /\ agent.cost = agent.fuel
    /\ agent.time_elapsed >= 2
    /\ agent.cost > agent.time_elapsed

\* the statements of run_delivery that are left at most, counted in steps
\* of the mission: four for every unit of time that remains, and the
\* position inside the current iteration of the loop
MissionRank ==
    IF pc = "done" THEN 0
    ELSE 4 * (agent.time_limit - agent.time_elapsed)
            + (CASE pc = "plan" -> 4
                 [] pc = "loop" -> 3
                 [] pc = "replan" -> 2
                 [] pc = "move" -> 1
                 [] OTHER -> 0)

\* the mission is at a statement that can be executed: no planner call has
\* raised or failed to return, and the call at hand has an outcome
MissionCanStep ==
    /\ pc \in {"plan", "loop", "replan", "move"}
    /\ pc = "plan" => plan_path(grid, goal, agent, alg) # {}
    /\ pc = "replan" => replan(grid, goal, agent, replan_alg) # {}

\* C28: run_delivery with a complete planner for planning and replanning
\* always terminates: until it has returned the mission can take a step,
\* and every step lowers the bounded count of the statements left; a replan
\* either returns from the mission or leads to the move of the same
\* iteration; a move either breaks out of the loop or is accepted and
\* advances the elapsed time by one; and the elapsed time never exceeds the
\* time limit, also when check_for_replan demands a replan on every
\* iteration.
C28_MissionTerminates ==
    /\ [](pc # "done" => MissionCanStep)
    /\ [](agent.time_elapsed <= agent.time_limit /\ MissionRank >= 0)
    /\ [][/\ MissionRank' < MissionRank
          /\ pc = "replan" => pc' \in {"done", "move"}
          /\ pc = "move" =>
                \/ pc' = "done"
                \/ /\ pc' = "loop"
                   /\ agent'.time_elapsed = agent.time_elapsed + 1]_vars

\* a mission returned after the time limit stopped it, every iteration of
\* its loop having replanned
C28_Witness ==
    /\ pc = "done"
    /\ agent.time_limit >= 2
    /\ agent.time_elapsed = agent.time_limit
    /\ agent.replan_count = agent.time_elapsed
    /\ agent.position # goal

====
